---- MODULE Spec2Model ----
(***************************************************************************)
(* Task tracker: the todo slice (src/features/todo/todoSlice.js), the      *)
(* list projection of TodoForm.jsx and the Todo row component.             *)
(*                                                                         *)
(* JavaScript values are modelled as follows.  Strings are TLA+ strings;   *)
(* the values undefined and null are the two reserved strings Undefined    *)
(* and Null.  An object is a function from the property names it has to    *)
(* their values, and reading a property it does not have yields Undefined  *)
(* (Get).  An array is a sequence.  A JSON text is modelled by the         *)
(* document it denotes: JSON.stringify drops the properties whose value is *)
(* undefined, JSON.parse gives back what the text holds.                   *)
(***************************************************************************)
EXTENDS Integers, Sequences, FiniteSets, TLC

VARIABLES
    todos,          \* state.todo.todos: the in-memory task collection
    availableTags,  \* state.todo.availableTags: the in-memory tag vocabulary
    localStorage,   \* window.localStorage: key -> JSON text, for the keys set
    nanoidCount,    \* number of ids nanoid() has returned so far
    removedIds,     \* history: the ids of the tasks removeTodo has taken out
    filter,         \* TodoForm's filter state
    filteredTodos,  \* TodoForm's memoized list, as last rendered
    rows,           \* local state of the mounted Todo rows, by task id
    auth,           \* state.auth: isAuthenticated, user, loading, error
    timers,         \* the pending setTimeout callbacks of Login, oldest first
    tagInput,       \* one editable TagInput: its props, its state, its timers
    darkMode        \* state.darkMode.darkMode

vars == <<todos, availableTags, localStorage, nanoidCount, removedIds,
          filter, filteredTodos, rows, auth, timers, tagInput, darkMode>>

(***************************************************************************)
(* Bounds                                                                  *)
(***************************************************************************)
MaxIds == 2       \* nanoid() is called at most this many times

(***************************************************************************)
(* JavaScript values                                                       *)
(***************************************************************************)
Undefined == "<undefined>"
Null == "<null>"

\* obj[k] in JavaScript: a property the object lacks reads as undefined
Get(obj, k) == IF k \in DOMAIN obj THEN obj[k] ELSE Undefined

\* truthiness of a string-or-null-or-undefined value
Truthy(v) == v # Undefined /\ v # Null /\ v # ""

\* payload.tags is truthy exactly when the property holds an array
HasTags(payload) == "tags" \in DOMAIN payload

Range(s) == {s[i] : i \in DOMAIN s}

\* Array.prototype.includes
Includes(s, v) == \E i \in DOMAIN s : s[i] = v

(***************************************************************************)
(* The id generator: collision-free, the n-th call returns a value no      *)
(* earlier call returned.                                                  *)
(***************************************************************************)
nanoid(n) == ToString(n)

(***************************************************************************)
(* JSON and localStorage                                                   *)
(***************************************************************************)
ScalarFields == {"id", "title", "description", "targetDate", "priority"}

\* JSON.stringify of one task object: properties holding undefined are left out
stringifyTodo(t) ==
    LET kept == {k \in DOMAIN t : k \in ScalarFields => t[k] # Undefined}
    IN [k \in kept |-> t[k]]

\* JSON.stringify(state.todos)
stringifyTodos(ts) == [i \in DOMAIN ts |-> stringifyTodo(ts[i])]

\* JSON.stringify(state.availableTags): undefined array elements become null
stringifyTags(tags) ==
    [i \in DOMAIN tags |-> IF tags[i] = Undefined THEN Null ELSE tags[i]]

\* JSON.parse: the value the text denotes
JSONparse(text) == text

\* localStorage.getItem(key) || '[]'
getItemOrEmpty(ls, key) == IF key \in DOMAIN ls THEN ls[key] ELSE <<>>

\* localStorage.setItem(key, text)
setItem(ls, key, text) ==
    [k \in DOMAIN ls \cup {key} |-> IF k = key THEN text ELSE ls[k]]

\* module initialisation of todoSlice.js: the state restored from storage
initialState(ls) ==
    [todos         |-> JSONparse(getItemOrEmpty(ls, "todos")),
     availableTags |-> JSONparse(getItemOrEmpty(ls, "availableTags"))]

(***************************************************************************)
(* The reducers.  Each takes the slice state s = [todos, availableTags]    *)
(* and the storage ls and returns both as they are when the reducer        *)
(* returns: [todos, availableTags, localStorage].                          *)
(***************************************************************************)

\* mergeTags, but nothing is merged
mergeTags_nothing(tags, ls, payload) ==
    [availableTags |-> tags, localStorage |-> ls]

\* mergeTags, but the vocabulary is overwritten with the tags that are new
mergeTags_replace(tags, ls, payload) ==
    IF HasTags(payload) /\ Len(payload.tags) > 0
    THEN LET newTags == SelectSeq(payload.tags, LAMBDA tag : ~Includes(tags, tag))
         IN [availableTags |-> newTags,
             localStorage  |-> setItem(ls, "availableTags", stringifyTags(newTags))]
    ELSE [availableTags |-> tags, localStorage |-> ls]

\* mergeTags, but the new tags are put in front of the vocabulary
mergeTags_prepend(tags, ls, payload) ==
    IF HasTags(payload) /\ Len(payload.tags) > 0
    THEN LET newTags == SelectSeq(payload.tags, LAMBDA tag : ~Includes(tags, tag))
             merged  == newTags \o tags
         IN [availableTags |-> merged,
             localStorage  |-> setItem(ls, "availableTags", stringifyTags(merged))]
    ELSE [availableTags |-> tags, localStorage |-> ls]

\* the tag block of addTodo and of updateTodo: merge payload.tags into the
\* vocabulary and store it
mergeTags(tags, ls, payload) ==
    IF HasTags(payload) /\ Len(payload.tags) > 0
    THEN LET newTags == SelectSeq(payload.tags, LAMBDA tag : ~Includes(tags, tag))
             merged  == tags \o newTags
         IN [availableTags |-> merged,
             localStorage  |-> setItem(ls, "availableTags", stringifyTags(merged))]
    ELSE [availableTags |-> tags, localStorage |-> ls]

\* addTodo, but the id is derived from the length of the collection
addTodo_idFromLength(s, ls, payload, id) ==
    LET todo == [id          |-> ToString(Len(s.todos) + 1),
                 title       |-> Get(payload, "title"),
                 description |-> Get(payload, "description"),
                 targetDate  |-> Get(payload, "targetDate"),
                 priority    |-> IF Truthy(Get(payload, "priority"))
                                 THEN payload.priority ELSE Null,
                 tags        |-> IF HasTags(payload) THEN payload.tags ELSE <<>>,
                 isCompleted |-> FALSE]
        pushed == Append(s.todos, todo)
        m == mergeTags(s.availableTags, ls, payload)
    IN [todos         |-> pushed,
        availableTags |-> m.availableTags,
        localStorage  |-> setItem(m.localStorage, "todos", stringifyTodos(pushed))]

\* addTodo, but the task is put in front of the collection (unshift)
addTodo_unshift(s, ls, payload, id) ==
    LET todo == [id          |-> id,
                 title       |-> Get(payload, "title"),
                 description |-> Get(payload, "description"),
                 targetDate  |-> Get(payload, "targetDate"),
                 priority    |-> IF Truthy(Get(payload, "priority"))
                                 THEN payload.priority ELSE Null,
                 tags        |-> IF HasTags(payload) THEN payload.tags ELSE <<>>,
                 isCompleted |-> FALSE]
        pushed == <<todo>> \o s.todos
        m == mergeTags(s.availableTags, ls, payload)
    IN [todos         |-> pushed,
        availableTags |-> m.availableTags,
        localStorage  |-> setItem(m.localStorage, "todos", stringifyTodos(pushed))]

addTodo(s, ls, payload, id) ==
    LET todo == [id          |-> id,
                 title       |-> Get(payload, "title"),
                 description |-> Get(payload, "description"),
                 targetDate  |-> Get(payload, "targetDate"),
                 priority    |-> IF Truthy(Get(payload, "priority"))
                                 THEN payload.priority ELSE Null,
                 tags        |-> IF HasTags(payload) THEN payload.tags ELSE <<>>,
                 isCompleted |-> FALSE]
        pushed == Append(s.todos, todo)
        m == mergeTags(s.availableTags, ls, payload)
    IN [todos         |-> pushed,
        availableTags |-> m.availableTags,
        localStorage  |-> setItem(m.localStorage, "todos", stringifyTodos(pushed))]

\* updatedTodo, but the updated task is marked as not completed
updatedTodo_resetsCompleted(todo, payload) ==
    [id          |-> Get(todo, "id"),
     title       |-> Get(payload, "title"),
     description |-> Get(payload, "description"),
     targetDate  |-> Get(payload, "targetDate"),
     priority    |-> Get(payload, "priority"),
     tags        |-> IF HasTags(payload) THEN payload.tags ELSE <<>>,
     isCompleted |-> FALSE]

\* updatedTodo, but built without the spread of the old task
updatedTodo_noSpread(todo, payload) ==
    [id          |-> Get(payload, "id"),
     title       |-> Get(payload, "title"),
     description |-> Get(payload, "description"),
     targetDate  |-> Get(payload, "targetDate"),
     priority    |-> Get(payload, "priority"),
     tags        |-> IF HasTags(payload) THEN payload.tags ELSE <<>>,
     isCompleted |-> FALSE]

\* {...todo, title, description, targetDate, priority, tags}
updatedTodo(todo, payload) ==
    LET given == [title       |-> Get(payload, "title"),
                  description |-> Get(payload, "description"),
                  targetDate  |-> Get(payload, "targetDate"),
                  priority    |-> Get(payload, "priority"),
                  tags        |-> IF HasTags(payload) THEN payload.tags ELSE <<>>]
    IN [k \in DOMAIN todo \cup DOMAIN given |->
            IF k \in DOMAIN given THEN given[k] ELSE todo[k]]

\* updateTodo, but a payload whose id matches no task is appended (upsert)
updateTodo_upsert(s, ls, payload) ==
    LET mapped == [i \in DOMAIN s.todos |->
                      IF Get(s.todos[i], "id") = Get(payload, "id")
                      THEN updatedTodo(s.todos[i], payload)
                      ELSE s.todos[i]]
        result == IF \E i \in DOMAIN s.todos : Get(s.todos[i], "id") = Get(payload, "id")
                  THEN mapped
                  ELSE Append(mapped, updatedTodo([id |-> Get(payload, "id"),
                                                   isCompleted |-> FALSE], payload))
        m == mergeTags(s.availableTags, ls, payload)
    IN [todos         |-> result,
        availableTags |-> m.availableTags,
        localStorage  |-> setItem(m.localStorage, "todos", stringifyTodos(result))]

updateTodo(s, ls, payload) ==
    LET mapped == [i \in DOMAIN s.todos |->
                      IF Get(s.todos[i], "id") = Get(payload, "id")
                      THEN updatedTodo(s.todos[i], payload)
                      ELSE s.todos[i]]
        m == mergeTags(s.availableTags, ls, payload)
    IN [todos         |-> mapped,
        availableTags |-> m.availableTags,
        localStorage  |-> setItem(m.localStorage, "todos", stringifyTodos(mapped))]

\* removeTodo, but the vocabulary is pruned to the tags still in use
removeTodo_prunes(s, ls, id) ==
    LET filtered == SelectSeq(s.todos, LAMBDA todo : Get(todo, "id") # id)
        pruned == SelectSeq(s.availableTags,
                      LAMBDA tag : \E i \in DOMAIN filtered : Includes(filtered[i].tags, tag))
    IN [todos         |-> filtered,
        availableTags |-> pruned,
        localStorage  |-> setItem(setItem(ls, "availableTags", stringifyTags(pruned)),
                                  "todos", stringifyTodos(filtered))]

\* removeTodo, but the collection is not written to storage
removeTodo_noPersist(s, ls, id) ==
    LET filtered == SelectSeq(s.todos, LAMBDA todo : Get(todo, "id") # id)
    IN [todos         |-> filtered,
        availableTags |-> s.availableTags,
        localStorage  |-> ls]

\* removeTodo, but the filter keeps the matching task instead of dropping it
removeTodo_inverted(s, ls, id) ==
    LET filtered == SelectSeq(s.todos, LAMBDA todo : Get(todo, "id") = id)
    IN [todos         |-> filtered,
        availableTags |-> s.availableTags,
        localStorage  |-> setItem(ls, "todos", stringifyTodos(filtered))]

removeTodo(s, ls, id) ==
    LET filtered == SelectSeq(s.todos, LAMBDA todo : Get(todo, "id") # id)
    IN [todos         |-> filtered,
        availableTags |-> s.availableTags,
        localStorage  |-> setItem(ls, "todos", stringifyTodos(filtered))]

\* toggleComplete, but the collection is not written to storage
toggleComplete_noPersist(s, ls, id) ==
    LET mapped == [i \in DOMAIN s.todos |->
                      IF Get(s.todos[i], "id") = id
                      THEN [s.todos[i] EXCEPT !.isCompleted = ~s.todos[i].isCompleted]
                      ELSE s.todos[i]]
    IN [todos         |-> mapped,
        availableTags |-> s.availableTags,
        localStorage  |-> ls]

\* toggleComplete, but the task is marked completed instead of flipped
toggleComplete_setsTrue(s, ls, id) ==
    LET mapped == [i \in DOMAIN s.todos |->
                      IF Get(s.todos[i], "id") = id
                      THEN [s.todos[i] EXCEPT !.isCompleted = TRUE]
                      ELSE s.todos[i]]
    IN [todos         |-> mapped,
        availableTags |-> s.availableTags,
        localStorage  |-> setItem(ls, "todos", stringifyTodos(mapped))]

toggleComplete(s, ls, id) ==
    LET mapped == [i \in DOMAIN s.todos |->
                      IF Get(s.todos[i], "id") = id
                      THEN [s.todos[i] EXCEPT !.isCompleted = ~s.todos[i].isCompleted]
                      ELSE s.todos[i]]
    IN [todos         |-> mapped,
        availableTags |-> s.availableTags,
        localStorage  |-> setItem(ls, "todos", stringifyTodos(mapped))]

(***************************************************************************)
(* TodoForm: the displayed list (filteredTodos)                            *)
(***************************************************************************)
Filters == {"all", "pending", "completed"}

\* the number NaN, kept apart from every rank and rank difference
NaN == 1000

\* priorityOrder[priority]: the table has the keys high, medium, low, null and
\* undefined; any other key reads as undefined, which the subtraction of the
\* comparator turns into NaN
priorityOrder(priority) ==
    CASE priority = "high"    -> 0
      [] priority = "medium"  -> 1
      [] priority = "low"     -> 2
      [] priority = Null      -> 3
      [] priority = Undefined -> 3
      [] OTHER                -> NaN

\* the comparator handed to sort
comparePriority(a, b) ==
    LET ra == priorityOrder(Get(a, "priority"))
        rb == priorityOrder(Get(b, "priority"))
    IN IF ra = NaN \/ rb = NaN THEN NaN ELSE ra - rb

\* what sort makes of the comparator's result: NaN counts as +0
sortCompare(a, b) ==
    IF comparePriority(a, b) = NaN THEN 0 ELSE comparePriority(a, b)

\* insertStable, but x goes before the elements it compares equal to
insertBeforeEqual(sorted, x) ==
    LET n == Cardinality({i \in DOMAIN sorted : sortCompare(sorted[i], x) < 0})
    IN SubSeq(sorted, 1, n) \o <<x>> \o SubSeq(sorted, n + 1, Len(sorted))

\* one step of a stable sort: x goes behind every element of the sorted
\* prefix that does not compare greater than it
insertStable(sorted, x) ==
    LET n == Cardinality({i \in DOMAIN sorted : sortCompare(sorted[i], x) <= 0})
    IN SubSeq(sorted, 1, n) \o <<x>> \o SubSeq(sorted, n + 1, Len(sorted))

\* [...filtered].sort(comparator): Array.prototype.sort is stable
RECURSIVE sortByPriority(_)
sortByPriority(s) ==
    IF s = <<>> THEN <<>>
    ELSE insertStable(sortByPriority(SubSeq(s, 1, Len(s) - 1)), s[Len(s)])

\* project, but 'pending' lets every task through
project_pendingAll(ts, f) ==
    LET filtered ==
          CASE f = "completed" -> SelectSeq(ts, LAMBDA todo : todo.isCompleted)
            [] OTHER           -> ts
    IN sortByPriority(filtered)

\* the useMemo body of filteredTodos
project(ts, f) ==
    LET filtered ==
          CASE f = "completed" -> SelectSeq(ts, LAMBDA todo : todo.isCompleted)
            [] f = "pending"   -> SelectSeq(ts, LAMBDA todo : ~todo.isCompleted)
            [] OTHER           -> ts
    IN sortByPriority(filtered)

\* todosAfterProject, but the sort runs on `filtered` itself, which under
\* 'all' is the array of the store
todosAfterProject_sortsInPlace(ts, f) ==
    IF f \in {"completed", "pending"} THEN ts ELSE sortByPriority(ts)

\* the array state.todo.todos once the useMemo body has run: filter returns
\* a new array and the sort runs on the copy [...filtered]
todosAfterProject(ts, f) == ts

\* taskStats, but counted over the displayed list
taskStats_fromFiltered(ts) ==
    LET total     == Len(filteredTodos)
        completed == Len(SelectSeq(filteredTodos, LAMBDA todo : todo.isCompleted))
    IN [total |-> total, completed |-> completed, pending |-> total - completed]

\* the useMemo body of taskStats
taskStats(ts) ==
    LET total     == Len(ts)
        completed == Len(SelectSeq(ts, LAMBDA todo : todo.isCompleted))
    IN [total |-> total, completed |-> completed, pending |-> total - completed]

(***************************************************************************)
(* Inputs                                                                  *)
(***************************************************************************)
\* action payloads handed to addTodo / updateTodo (without the id)
Payloads ==
    { [title |-> "t1", description |-> "d1", targetDate |-> Null,
       priority |-> "high", tags |-> <<"work", "urgent">>],
      [title |-> "t2", description |-> "", targetDate |-> "2026-01-01T00:00:00.000Z",
       priority |-> Null],
      [title |-> "t1", description |-> "d2", targetDate |-> Null,
       priority |-> "low", tags |-> <<"urgent", "urgent">>],
      [title |-> "t3", targetDate |-> "2026-01-01T00:00:00.000Z", tags |-> <<>>] }

\* ids handed to updateTodo / removeTodo / toggleComplete
Ids == {nanoid(n) : n \in 1..MaxIds}

WithId(payload, id) ==
    [k \in DOMAIN payload \cup {"id"} |-> IF k = "id" THEN id ELSE payload[k]]

(***************************************************************************)
(* The auth slice and the Login form                                       *)
(***************************************************************************)
MaxTimers == 2    \* Login is submitted only while fewer callbacks are pending

\* the value null in state.user
NullUser == [null |-> TRUE]

\* what is typed into the email field: the part before the first '@' and the
\* rest; an address typed without '@' has an empty rest
Emails == { [local |-> "ann", rest |-> "x.org"],
            [local |-> "bob", rest |-> ""],
            [local |-> "ann", rest |-> "y.org@x.org"],
            [local |-> "",    rest |-> ""] }

\* formData.email
emailText(e) == IF e.rest = "" THEN e.local ELSE e.local \o "@" \o e.rest

\* formData.email.split('@')[0]
splitAt0(e) == e.local

\* the user object built by Login.handleSubmit
loginUser(e) == [id |-> 1, email |-> emailText(e), name |-> splitAt0(e)]

Users == {loginUser(e) : e \in Emails}

UserStrings == {u.email : u \in Users} \cup {u.name : u \in Users}

\* JSON text of a string
quote(str) == "\"" \o str \o "\""

\* JSON.stringify(user): the text of each property
stringifyUser(user) ==
    [k \in DOMAIN user |-> IF k = "id" THEN ToString(user[k]) ELSE quote(user[k])]

\* JSON.parse of the stored user text
parseUser(text) ==
    [k \in DOMAIN text |->
        IF k = "id"
        THEN CHOOSE n \in 0..9 : ToString(n) = text[k]
        ELSE CHOOSE str \in UserStrings : quote(str) = text[k]]

\* localStorage.removeItem(key)
removeItem(ls, key) == [k \in DOMAIN ls \ {key} |-> ls[k]]

getUserFromStorage(ls) ==
    IF "user" \in DOMAIN ls THEN parseUser(ls["user"]) ELSE NullUser

\* module initialisation of authSlice.js
authInitialState(ls) ==
    [isAuthenticated |-> getUserFromStorage(ls) # NullUser,
     user            |-> getUserFromStorage(ls),
     loading         |-> FALSE,
     error           |-> Null]

\* The auth reducers take state.auth and the storage and return both:
\* [auth, localStorage].

\* loginStart, but the error of the previous attempt is kept
loginStart_keepsError(a, ls) ==
    [auth         |-> [a EXCEPT !.loading = TRUE],
     localStorage |-> ls]

loginStart(a, ls) ==
    [auth         |-> [a EXCEPT !.loading = TRUE, !.error = Null],
     localStorage |-> ls]

\* loginSuccess, but the user is not written to storage
loginSuccess_noPersist(a, ls, payload) ==
    [auth         |-> [isAuthenticated |-> TRUE, user |-> payload,
                       loading |-> FALSE, error |-> Null],
     localStorage |-> ls]

loginSuccess(a, ls, payload) ==
    [auth         |-> [isAuthenticated |-> TRUE, user |-> payload,
                       loading |-> FALSE, error |-> Null],
     localStorage |-> setItem(ls, "user", stringifyUser(payload))]

loginFailure(a, ls, payload) ==
    [auth         |-> [isAuthenticated |-> FALSE, user |-> NullUser,
                       loading |-> FALSE, error |-> payload],
     localStorage |-> ls]

logout(a, ls) ==
    [auth         |-> [a EXCEPT !.isAuthenticated = FALSE, !.user = NullUser,
                                !.error = Null],
     localStorage |-> removeItem(ls, "user")]

clearError(a, ls) ==
    [auth         |-> [a EXCEPT !.error = Null],
     localStorage |-> ls]

session == <<auth, timers>>

(***************************************************************************)
(* The darkMode slice                                                      *)
(***************************************************************************)
\* String(boolean)
String(b) == IF b THEN "true" ELSE "false"

\* module initialisation of darkModeSlice.js: getItem('mode') === "true"
darkModeInitialState(ls) ==
    [darkMode |-> ("mode" \in DOMAIN ls /\ ls["mode"] = "true")]

\* toggleDarkMode, but the value before the flip is stored
toggleDarkMode_storesOld(s, ls) ==
    [darkMode     |-> ~s.darkMode,
     localStorage |-> setItem(ls, "mode", String(s.darkMode))]

\* the reducer, from the slice state s = [darkMode] and the storage
toggleDarkMode(s, ls) ==
    [darkMode     |-> ~s.darkMode,
     localStorage |-> setItem(ls, "mode", String(~s.darkMode))]

(***************************************************************************)
(* The TagInput component.  A text is the sequence of its characters.      *)
(***************************************************************************)
MaxHideTimers == 1    \* blur is handled only while fewer hide timers are pending

\* String.prototype.trim
RECURSIVE trim(_)
trim(text) ==
    IF text = <<>> THEN text
    ELSE IF Head(text) = " " THEN trim(Tail(text))
    ELSE IF text[Len(text)] = " " THEN trim(SubSeq(text, 1, Len(text) - 1))
    ELSE text

\* String.prototype.toLowerCase
toLowerCase(text) ==
    [i \in DOMAIN text |-> CASE text[i] = "A" -> "a"
                             [] text[i] = "B" -> "b"
                             [] OTHER         -> text[i]]

\* String.prototype.includes
includesText(text, part) ==
    \E i \in 1..(Len(text) + 1) :
        /\ i + Len(part) - 1 <= Len(text)
        /\ SubSeq(text, i, i + Len(part) - 1) = part

\* what can be in the input field
TypedTexts == { <<>>, <<" ">>, <<"a">>, <<" ", "a", " ">>, <<"A">>, <<"a", "b">> }

\* the availableTags prop: tags that were entered through a TagInput
Vocabularies == { <<>>, << <<"a">> >>, << <<"a", "b">>, <<"A">>, <<"b">> >> }

\* the tags prop when the component is mounted
MountedTags == { <<>>, << <<"b">> >> }

\* no TagInput is looked at
NoTagInput ==
    [tags |-> <<>>, availableTags |-> <<>>, inputValue |-> <<>>,
     showSuggestions |-> FALSE, hideTimers |-> 0]

filteredSuggestions(t) ==
    SelectSeq(t.availableTags,
              LAMBDA tag : /\ includesText(toLowerCase(tag), toLowerCase(t.inputValue))
                           /\ ~Includes(t.tags, tag))

\* addTagOf, but a tag already in the list is added again
addTagOf_noIncludes(t, tag) ==
    IF tag # <<>>
    THEN [t EXCEPT !.tags = Append(t.tags, tag), !.inputValue = <<>>,
                   !.showSuggestions = FALSE]
    ELSE t

\* addTag(tag), with onTagsChange setting the tags prop
addTagOf(t, tag) ==
    IF tag # <<>> /\ ~Includes(t.tags, tag)
    THEN [t EXCEPT !.tags = Append(t.tags, tag), !.inputValue = <<>>,
                   !.showSuggestions = FALSE]
    ELSE t

\* removeTag(tagToRemove)
removeTagOf(t, tagToRemove) ==
    [t EXCEPT !.tags = SelectSeq(t.tags, LAMBDA tag : tag # tagToRemove)]

(***************************************************************************)
(* The store, driven through its four action creators                      *)
(***************************************************************************)
State == [todos |-> todos, availableTags |-> availableTags]

IdsOf(ts) == {Get(ts[i], "id") : i \in DOMAIN ts}

Commit(r) ==
    /\ todos' = r.todos
    /\ availableTags' = r.availableTags
    /\ localStorage' = r.localStorage
    /\ removedIds' = removedIds \cup (IdsOf(todos) \ IdsOf(r.todos))
    /\ UNCHANGED <<session, tagInput, darkMode>>

\* no component is mounted
ui == <<filter, filteredTodos, rows>>

Init ==
    /\ localStorage = <<>>
    /\ todos = initialState(localStorage).todos
    /\ availableTags = initialState(localStorage).availableTags
    /\ nanoidCount = 0
    /\ removedIds = {}
    /\ filter = "all"
    /\ filteredTodos = <<>>
    /\ rows = <<>>
    /\ auth = authInitialState(localStorage)
    /\ timers = <<>>
    /\ tagInput = NoTagInput
    /\ darkMode = darkModeInitialState(localStorage).darkMode

\* dispatch(addTodo(payload))
AddTodoWith(payload) ==
    /\ nanoidCount < MaxIds
    /\ nanoidCount' = nanoidCount + 1
    /\ Commit(addTodo(State, localStorage, payload, nanoid(nanoidCount + 1)))

\* dispatch(updateTodo({id, ...payload}))
UpdateTodoWith(id, payload) ==
    /\ Commit(updateTodo(State, localStorage, WithId(payload, id)))
    /\ UNCHANGED nanoidCount

\* dispatch(removeTodo(id))
RemoveTodoWith(id) ==
    /\ Commit(removeTodo(State, localStorage, id))
    /\ UNCHANGED nanoidCount

\* dispatch(toggleComplete(id))
ToggleCompleteWith(id) ==
    /\ Commit(toggleComplete(State, localStorage, id))
    /\ UNCHANGED nanoidCount

AddTodo == \E payload \in Payloads : AddTodoWith(payload) /\ UNCHANGED ui

UpdateTodo ==
    \E id \in Ids, payload \in Payloads : UpdateTodoWith(id, payload) /\ UNCHANGED ui

RemoveTodo == \E id \in Ids : RemoveTodoWith(id) /\ UNCHANGED ui

ToggleComplete == \E id \in Ids : ToggleCompleteWith(id) /\ UNCHANGED ui

\* page reload: the module is evaluated again and the state restored
Reload ==
    /\ todos' = initialState(localStorage).todos
    /\ availableTags' = initialState(localStorage).availableTags
    /\ auth' = authInitialState(localStorage)
    /\ timers' = <<>>
    /\ darkMode' = darkModeInitialState(localStorage).darkMode
    /\ UNCHANGED <<localStorage, nanoidCount, removedIds, ui, tagInput>>

Next == AddTodo \/ UpdateTodo \/ RemoveTodo \/ ToggleComplete \/ Reload

Spec == Init /\ [][Next]_vars

(***************************************************************************)
(* The Todo row component and the TodoForm around it                       *)
(***************************************************************************)
MaxRows == 1      \* the form is submitted only while fewer tasks than this exist

IsoDates == {"2026-01-01T00:00:00.000Z", "2026-02-02T00:00:00.000Z"}

\* new Date(isoString)
newDate(iso) == "Date(" \o iso \o ")"

\* Date.prototype.toISOString
toISOString(date) == CHOOSE iso \in IsoDates : newDate(iso) = date

\* the useState initialisers of Todo
mountTodo(todo) ==
    [isTodoEditable  |-> FALSE,
     todoTitle       |-> Get(todo, "title"),
     todoDescription |-> Get(todo, "description"),
     todoTargetDate  |-> IF Truthy(Get(todo, "targetDate"))
                         THEN newDate(todo.targetDate) ELSE Null,
     todoPriority    |-> IF Truthy(Get(todo, "priority")) THEN todo.priority ELSE Null,
     todoTags        |-> IF "tags" \in DOMAIN todo THEN todo.tags ELSE <<>>]

TodoById(ts, id) == ts[CHOOSE i \in DOMAIN ts : Get(ts[i], "id") = id]

\* renderRows, but without the effect on [todo.isCompleted]
renderRows_noEffect(shown) ==
    [id \in IdsOf(shown) |->
        IF id \in DOMAIN rows THEN rows[id] ELSE mountTodo(TodoById(shown, id))]

\* the rows after TodoForm has rendered `shown` where it showed filteredTodos:
\* a row keeps its state while its key stays in the list and is mounted
\* afresh otherwise; the effect on [todo.isCompleted] leaves edit mode when
\* the task has become completed
renderRows(shown) ==
    [id \in IdsOf(shown) |->
        IF id \in DOMAIN rows
        THEN IF /\ TodoById(shown, id).isCompleted
                /\ ~TodoById(filteredTodos, id).isCompleted
             THEN [rows[id] EXCEPT !.isTodoEditable = FALSE]
             ELSE rows[id]
        ELSE mountTodo(TodoById(shown, id))]

\* a dispatch or setFilter, followed by the re-render of TodoForm
Render(r, f) ==
    /\ Commit([r EXCEPT !.todos = todosAfterProject(r.todos, f)])
    /\ filter' = f
    /\ filteredTodos' = project(r.todos, f)
    /\ rows' = renderRows(project(r.todos, f))

Unchanged == [todos |-> todos, availableTags |-> availableTags,
              localStorage |-> localStorage]

\* what the user has entered in the creation form when pressing Add
FormInputs ==
    { [title |-> "t1", description |-> "d1", targetDate |-> Null,
       priority |-> "high", tags |-> <<"work">>],
      [title |-> "t2", description |-> "", targetDate |-> newDate("2026-01-01T00:00:00.000Z"),
       priority |-> Null, tags |-> <<>>],
      [title |-> "", description |-> "d1", targetDate |-> Null,
       priority |-> "low", tags |-> <<>>] }

\* HandleSubmit, but the title input is not `required`
HandleSubmit_notRequired ==
    \E form \in FormInputs :
        /\ nanoidCount < MaxIds
        /\ Len(todos) < MaxRows
        /\ nanoidCount' = nanoidCount + 1
        /\ Render(addTodo(State, localStorage,
                          [title       |-> form.title,
                           description |-> form.description,
                           targetDate  |-> IF Truthy(form.targetDate)
                                           THEN toISOString(form.targetDate) ELSE Null,
                           priority    |-> form.priority,
                           tags        |-> form.tags],
                          nanoid(nanoidCount + 1)),
                  filter)

\* TodoForm.handleSubmit; the title input is `required`
HandleSubmit ==
    \E form \in FormInputs :
        /\ form.title # ""
        /\ nanoidCount < MaxIds
        /\ Len(todos) < MaxRows
        /\ nanoidCount' = nanoidCount + 1
        /\ Render(addTodo(State, localStorage,
                          [title       |-> form.title,
                           description |-> form.description,
                           targetDate  |-> IF Truthy(form.targetDate)
                                           THEN toISOString(form.targetDate) ELSE Null,
                           priority    |-> form.priority,
                           tags        |-> form.tags],
                          nanoid(nanoidCount + 1)),
                  filter)

\* setFilter(f)
SetFilter ==
    \E f \in Filters :
        /\ Render(Unchanged, f)
        /\ UNCHANGED nanoidCount

store == <<todos, availableTags, localStorage, nanoidCount, removedIds, session,
           tagInput, darkMode>>

SetRow(id, row) ==
    /\ rows' = [rows EXCEPT ![id] = row]
    /\ UNCHANGED <<store, filter, filteredTodos>>

Editing(id) == id \in DOMAIN rows /\ rows[id].isTodoEditable

\* the Edit button: shown while the task is not completed
ClickEdit ==
    \E id \in Ids :
        /\ id \in DOMAIN rows
        /\ ~TodoById(filteredTodos, id).isCompleted
        /\ ~rows[id].isTodoEditable
        /\ SetRow(id, [rows[id] EXCEPT !.isTodoEditable = TRUE])

\* typing in the title input (read-only outside edit mode)
SetTodoTitle ==
    \E id \in Ids, value \in {"", "t3"} :
        /\ Editing(id)
        /\ SetRow(id, [rows[id] EXCEPT !.todoTitle = value])

\* typing in the description input
SetTodoDescription ==
    \E id \in Ids, value \in {"d3"} :
        /\ Editing(id)
        /\ SetRow(id, [rows[id] EXCEPT !.todoDescription = value])

\* picking a date in the row's date picker
SetTodoTargetDate ==
    \E id \in Ids, date \in {newDate("2026-02-02T00:00:00.000Z")} :
        /\ Editing(id)
        /\ SetRow(id, [rows[id] EXCEPT !.todoTargetDate = date])

\* the row's priority select
SetTodoPriority ==
    \E id \in Ids, value \in {"none", "low"} :
        /\ Editing(id)
        /\ SetRow(id, [rows[id] EXCEPT
                          !.todoPriority = IF value = "none" THEN Null ELSE value])

\* TagInput.addTag through onTagsChange = setTodoTags: a typed tag or a suggestion
AddTag ==
    \E id \in Ids, tag \in {"work"} \cup Range(availableTags) :
        /\ Editing(id)
        /\ tag # ""
        /\ ~Includes(rows[id].todoTags, tag)
        /\ SetRow(id, [rows[id] EXCEPT !.todoTags = Append(@, tag)])

\* TagInput.removeTag through onTagsChange = setTodoTags
RemoveTag ==
    \E id \in Ids :
        /\ Editing(id)
        /\ \E tag \in Range(rows[id].todoTags) :
             SetRow(id, [rows[id] EXCEPT
                            !.todoTags = SelectSeq(@, LAMBDA t : t # tag)])

\* the object editTodo hands to the action creator updateTodo, which makes it
\* the payload of the action
editTodoArgument(id, row) ==
    [type    |-> "todos/updateTodo",
     payload |-> [id          |-> id,
                  title       |-> row.todoTitle,
                  description |-> row.todoDescription,
                  targetDate  |-> IF Truthy(row.todoTargetDate)
                                  THEN toISOString(row.todoTargetDate) ELSE Null,
                  priority    |-> row.todoPriority,
                  tags        |-> row.todoTags]]

\* the Save button: editTodo
ClickSaveWith(id) ==
    /\ Editing(id)
    /\ ~TodoById(filteredTodos, id).isCompleted
    /\ IF ~Truthy(rows[id].todoTitle)
       THEN UNCHANGED vars
       ELSE LET r == updateTodo(State, localStorage, editTodoArgument(id, rows[id]))
            IN /\ Commit(r)
               /\ filteredTodos' = project(r.todos, filter)
               /\ rows' = [renderRows(project(r.todos, filter))
                              EXCEPT ![id].isTodoEditable = FALSE]
               /\ UNCHANGED <<filter, nanoidCount>>

ClickSave == \E id \in Ids : ClickSaveWith(id)

\* the Completed checkbox
ClickCompleted ==
    \E id \in Ids :
        /\ id \in DOMAIN rows
        /\ Render(toggleComplete(State, localStorage, id), filter)
        /\ UNCHANGED nanoidCount

\* the Remove button
ClickRemove ==
    \E id \in Ids :
        /\ id \in DOMAIN rows
        /\ Render(removeTodo(State, localStorage, id), filter)
        /\ UNCHANGED nanoidCount

NextUI ==
    \/ HandleSubmit \/ SetFilter
    \/ ClickEdit \/ SetTodoTitle \/ SetTodoDescription \/ SetTodoTargetDate
    \/ SetTodoPriority \/ AddTag \/ RemoveTag
    \/ ClickSave \/ ClickCompleted \/ ClickRemove

SpecUI == Init /\ [][NextUI]_vars

(***************************************************************************)
(* The projection on its own: any collection of up to MaxProjLen tasks,    *)
(* shown under each filter                                                 *)
(***************************************************************************)
MaxProjLen == 4

ProjPriorities == {"high", "medium", "low", Null, Undefined}

\* the task addTodo / updateTodo / toggleComplete leave at position i
ProjTodo(i, priority, isCompleted) ==
    [id |-> nanoid(i), title |-> "t1", description |-> "", targetDate |-> Null,
     priority |-> priority, tags |-> <<>>, isCompleted |-> isCompleted]

InitProject ==
    /\ \E n \in 0..MaxProjLen :
         \E ps \in [1..n -> ProjPriorities], cs \in [1..n -> BOOLEAN] :
            /\ todos = [i \in 1..n |-> ProjTodo(i, ps[i], cs[i])]
            /\ nanoidCount = n
    /\ availableTags = <<>>
    /\ localStorage = [todos |-> stringifyTodos(todos)]
    /\ removedIds = {}
    /\ filter = "all"
    /\ filteredTodos = project(todos, filter)
    /\ rows = [id \in IdsOf(filteredTodos) |-> mountTodo(TodoById(filteredTodos, id))]
    /\ auth = authInitialState(localStorage)
    /\ timers = <<>>
    /\ tagInput = NoTagInput
    /\ darkMode = darkModeInitialState(localStorage).darkMode

NextProject == SetFilter

SpecProject == InitProject /\ [][NextProject]_vars

(***************************************************************************)
(* Tasks created with each priority value, the string 'none' included, and *)
(* displayed.  When the comparator is not consistent on the list, the      *)
(* order sort leaves is implementation-defined: any permutation.           *)
(***************************************************************************)
MaxNoneTodos == 3

\* the comparator, NaN read as +0, orders the list consistently
ConsistentOn(s) ==
    \A i, j, k \in DOMAIN s :
        /\ (sortCompare(s[i], s[j]) = 0 /\ sortCompare(s[j], s[k]) = 0)
              => sortCompare(s[i], s[k]) = 0
        /\ (sortCompare(s[i], s[j]) < 0 /\ sortCompare(s[j], s[k]) =< 0)
              => sortCompare(s[i], s[k]) < 0
        /\ (sortCompare(s[i], s[j]) =< 0 /\ sortCompare(s[j], s[k]) < 0)
              => sortCompare(s[i], s[k]) < 0

\* the lists [...filtered].sort(comparator) can return
sortOutcomes(s) ==
    IF ConsistentOn(s)
    THEN {sortByPriority(s)}
    ELSE {[i \in DOMAIN s |-> s[perm[i]]] : perm \in Permutations(DOMAIN s)}

projectOutcomes(ts, f) ==
    LET filtered ==
          CASE f = "completed" -> SelectSeq(ts, LAMBDA todo : todo.isCompleted)
            [] f = "pending"   -> SelectSeq(ts, LAMBDA todo : ~todo.isCompleted)
            [] OTHER           -> ts
    IN sortOutcomes(filtered)

PriorityPayloads ==
    {[title |-> "t1", description |-> "", targetDate |-> Null, priority |-> p] :
        p \in {"high", "medium", "low", "none"}}
    \cup {[title |-> "t1", description |-> "", targetDate |-> Null]}

\* a dispatch or setFilter, followed by the re-render of TodoForm
RenderAny(r, f) ==
    /\ Commit(r)
    /\ filter' = f
    /\ filteredTodos' \in projectOutcomes(r.todos, f)
    /\ rows' = renderRows(filteredTodos')

\* dispatch(addTodo(payload)) while TodoForm is mounted
AddTodoPriority ==
    \E payload \in PriorityPayloads :
        /\ nanoidCount < MaxNoneTodos
        /\ nanoidCount' = nanoidCount + 1
        /\ RenderAny(addTodo(State, localStorage, payload, nanoid(nanoidCount + 1)),
                     filter)

\* dispatch(toggleComplete(id)) while TodoForm is mounted
ToggleCompletePriority ==
    \E id \in IdsOf(todos) :
        /\ RenderAny(toggleComplete(State, localStorage, id), filter)
        /\ UNCHANGED nanoidCount

\* setFilter(f)
SetFilterPriority ==
    \E f \in Filters :
        /\ RenderAny(Unchanged, f)
        /\ UNCHANGED nanoidCount

NextNone == AddTodoPriority \/ ToggleCompletePriority \/ SetFilterPriority

SpecNone == Init /\ [][NextNone]_vars

(***************************************************************************)
(* The login session: Login's form, its timer, the Logout button, reload   *)
(***************************************************************************)
todoSlice == <<todos, availableTags, nanoidCount, removedIds, ui>>

CommitAuth(r) ==
    /\ auth' = r.auth
    /\ localStorage' = r.localStorage
    /\ UNCHANGED <<todoSlice, tagInput, darkMode>>

LoginForms == [email : Emails, password : {"", "pw"}]

\* Login.handleSubmit: loginStart, then the timer is set or loginFailure
HandleLoginSubmitWith(formData) ==
    LET started == loginStart(auth, localStorage)
    IN IF Truthy(emailText(formData.email)) /\ Truthy(formData.password)
       THEN /\ Len(timers) < MaxTimers
            /\ CommitAuth(started)
            /\ timers' = Append(timers, loginUser(formData.email))
       ELSE /\ CommitAuth(loginFailure(started.auth, started.localStorage,
                                       "Please enter both email and password"))
            /\ UNCHANGED timers

HandleLoginSubmit == \E formData \in LoginForms : HandleLoginSubmitWith(formData)

\* the setTimeout callback: dispatch(loginSuccess(user))
LoginSuccessWith(user) ==
    /\ timers # <<>>
    /\ user = Head(timers)
    /\ CommitAuth(loginSuccess(auth, localStorage, user))
    /\ timers' = Tail(timers)

TimerFires == \E user \in Users : LoginSuccessWith(user)

\* the Logout button: dispatch(logout())
Logout ==
    /\ CommitAuth(logout(auth, localStorage))
    /\ UNCHANGED timers

\* dispatch(clearError())
ClearError ==
    /\ CommitAuth(clearError(auth, localStorage))
    /\ UNCHANGED timers

NextAuth == HandleLoginSubmit \/ TimerFires \/ Logout \/ ClearError \/ Reload

SpecAuth == Init /\ [][NextAuth]_vars

\* one page lifetime of the Login form: a timer that was set fires
NextLogin == HandleLoginSubmit \/ TimerFires \/ Logout \/ ClearError

SpecLogin == Init /\ [][NextLogin]_vars /\ WF_vars(TimerFires)

(***************************************************************************)
(* The store when localStorage.setItem can throw (quota exceeded, storage  *)
(* disabled).  The exception leaves the reducer; Immer discards the draft, *)
(* so the slice state stays as it was, while the writes made before the    *)
(* throw stay in storage.                                                  *)
(***************************************************************************)
StorageKeys == {"availableTags", "todos"}

\* action.payload.tags && action.payload.tags.length > 0
CarriesTags(payload) == HasTags(payload) /\ Len(payload.tags) > 0

\* a reducer that would end as r, run from s and ls while setItem throws for
\* the keys in throwing; tagged tells whether its tag block writes
reducerThrowing(s, ls, r, tagged, throwing) ==
    CASE tagged /\ "availableTags" \in throwing ->
            [todos |-> s.todos, availableTags |-> s.availableTags, localStorage |-> ls]
      [] "todos" \in throwing ->
            [todos         |-> s.todos,
             availableTags |-> s.availableTags,
             localStorage  |-> IF tagged
                               THEN setItem(ls, "availableTags",
                                            r.localStorage["availableTags"])
                               ELSE ls]
      [] OTHER -> r

\* dispatch(addTodo(payload))
AddTodoThrowing ==
    \E payload \in Payloads, throwing \in SUBSET StorageKeys :
        /\ nanoidCount < MaxIds
        /\ nanoidCount' = nanoidCount + 1
        /\ Commit(reducerThrowing(State, localStorage,
                                  addTodo(State, localStorage, payload,
                                          nanoid(nanoidCount + 1)),
                                  CarriesTags(payload), throwing))
        /\ UNCHANGED ui

\* dispatch(updateTodo({id, ...payload}))
UpdateTodoThrowing ==
    \E id \in Ids, payload \in Payloads, throwing \in SUBSET StorageKeys :
        /\ Commit(reducerThrowing(State, localStorage,
                                  updateTodo(State, localStorage, WithId(payload, id)),
                                  CarriesTags(payload), throwing))
        /\ UNCHANGED <<nanoidCount, ui>>

\* dispatch(removeTodo(id))
RemoveTodoThrowing ==
    \E id \in Ids, throwing \in SUBSET StorageKeys :
        /\ Commit(reducerThrowing(State, localStorage,
                                  removeTodo(State, localStorage, id),
                                  FALSE, throwing))
        /\ UNCHANGED <<nanoidCount, ui>>

\* dispatch(toggleComplete(id))
ToggleCompleteThrowing ==
    \E id \in Ids, throwing \in SUBSET StorageKeys :
        /\ Commit(reducerThrowing(State, localStorage,
                                  toggleComplete(State, localStorage, id),
                                  FALSE, throwing))
        /\ UNCHANGED <<nanoidCount, ui>>

NextThrowing ==
    AddTodoThrowing \/ UpdateTodoThrowing \/ RemoveTodoThrowing
       \/ ToggleCompleteThrowing \/ Reload

SpecThrowing == Init /\ [][NextThrowing]_vars

(***************************************************************************)
(* The auth slice, driven through its five action creators                 *)
(***************************************************************************)
\* the users Login passes to loginSuccess
LoginUsers == {loginUser(e) : e \in {e \in Emails : Truthy(emailText(e))}}

\* the messages Login passes to loginFailure
LoginErrors == {"Please enter both email and password",
                "Login failed. Please try again."}

DispatchAuth(r) == CommitAuth(r) /\ UNCHANGED timers

LoginStart == DispatchAuth(loginStart(auth, localStorage))

LoginSuccess == \E user \in LoginUsers : DispatchAuth(loginSuccess(auth, localStorage, user))

LoginFailureWith(error) == DispatchAuth(loginFailure(auth, localStorage, error))

LoginFailure == \E error \in LoginErrors : LoginFailureWith(error)

\* any sequence of the five actions, among them the sequences Login, its
\* timer and the Logout button produce
NextAuthSlice ==
    \/ LoginStart
    \/ LoginSuccess
    \/ LoginFailure
    \/ Logout
    \/ ClearError
    \/ HandleLoginSubmit
    \/ TimerFires
    \/ Reload

SpecAuthSlice == Init /\ [][NextAuthSlice]_vars

(***************************************************************************)
(* The dark-mode switch, used while logging in and out                     *)
(***************************************************************************)
\* the Switch: dispatch(toggleDarkMode())
ToggleDarkMode ==
    LET r == toggleDarkMode([darkMode |-> darkMode], localStorage)
    IN /\ darkMode' = r.darkMode
       /\ localStorage' = r.localStorage
       /\ UNCHANGED <<todoSlice, session, tagInput>>

NextTheme == ToggleDarkMode \/ NextAuth

SpecTheme == Init /\ [][NextTheme]_vars

(***************************************************************************)
(* The events of one editable TagInput                                     *)
(***************************************************************************)
InitTagInput ==
    /\ localStorage = <<>>
    /\ todos = <<>>
    /\ availableTags = <<>>
    /\ nanoidCount = 0
    /\ removedIds = {}
    /\ filter = "all"
    /\ filteredTodos = <<>>
    /\ rows = <<>>
    /\ auth = authInitialState(localStorage)
    /\ timers = <<>>
    /\ darkMode = darkModeInitialState(localStorage).darkMode
    /\ \E tags \in MountedTags, vocabulary \in Vocabularies :
          tagInput = [NoTagInput EXCEPT !.tags = tags, !.availableTags = vocabulary]

SetTagInput(t) ==
    /\ tagInput' = t
    /\ UNCHANGED <<todos, availableTags, localStorage, nanoidCount, removedIds, ui,
                   session, darkMode>>

\* onChange
HandleInputChange ==
    \E text \in TypedTexts :
        SetTagInput([tagInput EXCEPT !.inputValue = text, !.showSuggestions = TRUE])

\* onFocus
HandleInputFocus == SetTagInput([tagInput EXCEPT !.showSuggestions = TRUE])

\* onKeyDown with Enter or ','
KeyDownEnterOrComma == SetTagInput(addTagOf(tagInput, trim(tagInput.inputValue)))

\* onKeyDown with Backspace; on a non-empty input it only edits the text
KeyDownBackspace ==
    /\ tagInput.inputValue = <<>>
    /\ Len(tagInput.tags) > 0
    /\ SetTagInput(removeTagOf(tagInput, tagInput.tags[Len(tagInput.tags)]))

\* onBlur: the pending text becomes a tag, and a timer is set to hide the
\* suggestions
HandleInputBlur ==
    /\ tagInput.hideTimers < MaxHideTimers
    /\ LET t == IF trim(tagInput.inputValue) # <<>>
                THEN addTagOf(tagInput, trim(tagInput.inputValue))
                ELSE tagInput
       IN SetTagInput([t EXCEPT !.hideTimers = @ + 1])

\* the setTimeout callback of onBlur
HideSuggestions ==
    /\ tagInput.hideTimers > 0
    /\ SetTagInput([tagInput EXCEPT !.hideTimers = @ - 1, !.showSuggestions = FALSE])

\* click on an entry of the suggestions dropdown
HandleSuggestionClick ==
    /\ tagInput.showSuggestions
    /\ \E tag \in Range(filteredSuggestions(tagInput)) :
          SetTagInput(addTagOf(tagInput, tag))

\* click on the X of a tag
ClickTagX ==
    \E tag \in Range(tagInput.tags) : SetTagInput(removeTagOf(tagInput, tag))

NextTagInput ==
    \/ HandleInputChange
    \/ HandleInputFocus
    \/ KeyDownEnterOrComma
    \/ KeyDownBackspace
    \/ HandleInputBlur
    \/ HideSuggestions
    \/ HandleSuggestionClick
    \/ ClickTagX

SpecTagInput == InitTagInput /\ [][NextTagInput]_vars

(***************************************************************************)
(* Properties of the store                                                 *)
(***************************************************************************)
TaskFields == ScalarFields \cup {"tags", "isCompleted"}

\* two task objects read the same, property by property
SameTodo(a, b) ==
    /\ \A k \in ScalarFields : Get(a, k) = Get(b, k)
    /\ a.tags = b.tags
    /\ a.isCompleted = b.isCompleted

SameTodos(as, bs) ==
    /\ Len(as) = Len(bs)
    /\ \A i \in DOMAIN as : SameTodo(as[i], bs[i])

Present(id) == \E i \in DOMAIN todos : Get(todos[i], "id") = id

\* C1: no two tasks of the collection share an id, and no task of the
\* collection carries the id of a task that was removed earlier.
C1_UniqueIds ==
    /\ \A i, j \in DOMAIN todos : Get(todos[i], "id") = Get(todos[j], "id") => i = j
    /\ IdsOf(todos) \cap removedIds = {}

\* a task was removed and a task created with a later id is present
C1_Witness ==
    /\ removedIds = {nanoid(1)}
    /\ IdsOf(todos) = {nanoid(2)}

\* C2: updateTodo on an id of the collection leaves that task with the given
\* title, description, targetDate, priority and tags (the empty sequence when
\* the payload has no tags), its id, isCompleted and position unchanged, and
\* every other task unchanged.
C2_UpdateReplacesFields ==
    [][\A id \in Ids, payload \in Payloads :
         (UpdateTodoWith(id, payload) /\ Present(id)) =>
            /\ Len(todos') = Len(todos)
            /\ \A i \in DOMAIN todos :
                 IF Get(todos[i], "id") = id
                 THEN /\ Get(todos'[i], "title") = Get(payload, "title")
                      /\ Get(todos'[i], "description") = Get(payload, "description")
                      /\ Get(todos'[i], "targetDate") = Get(payload, "targetDate")
                      /\ Get(todos'[i], "priority") = Get(payload, "priority")
                      /\ todos'[i].tags = (IF HasTags(payload) THEN payload.tags ELSE <<>>)
                      /\ Get(todos'[i], "id") = id
                      /\ todos'[i].isCompleted = todos[i].isCompleted
                 ELSE todos'[i] = todos[i]]_vars

\* the only task ever created was created with tags <<urgent, urgent>>; it is
\* completed and now carries the fields of the payload with tags <<work, urgent>>
C2_Witness ==
    /\ nanoidCount = 1
    /\ Len(todos) = 1
    /\ availableTags = <<"urgent", "urgent", "work">>
    /\ todos[1].tags = <<"work", "urgent">>
    /\ Get(todos[1], "title") = "t1"
    /\ Get(todos[1], "description") = "d1"
    /\ todos[1].isCompleted

\* C4: updateTodo with an id that matches no task leaves the collection
\* unchanged in length, order and contents.
C4_UpdateUnknownIdKeepsTodos ==
    [][\A id \in Ids, payload \in Payloads :
         (UpdateTodoWith(id, payload) /\ ~Present(id)) => todos' = todos]_vars

\* no task was ever created, yet an update carrying tags has been dispatched
C4_Witness ==
    /\ nanoidCount = 0
    /\ todos = <<>>
    /\ availableTags = <<"work", "urgent">>

\* C5: an update, remove or toggleComplete whose id matches no task changes
\* nothing: the collection, the vocabulary and what the two stored entries
\* decode to are the same after the step as before it.
C5_UnknownIdChangesNothing ==
    [][\A id \in Ids :
         (/\ ~Present(id)
          /\ \/ \E payload \in Payloads : UpdateTodoWith(id, payload)
             \/ RemoveTodoWith(id)
             \/ ToggleCompleteWith(id))
         => /\ todos' = todos
            /\ availableTags' = availableTags
            /\ initialState(localStorage') = initialState(localStorage)]_vars

\* C6: every tag of the vocabulary before a step is in the vocabulary after it.
C6_VocabularyOnlyGrows ==
    [][Range(availableTags) \subseteq Range(availableTags')]_vars

\* the vocabulary holds tags of two different payloads and no task is left
C6_Witness ==
    /\ todos = <<>>
    /\ removedIds # {}
    /\ {"work", "urgent"} \subseteq Range(availableTags)
    /\ Len(availableTags) >= 3

\* C7: removeTodo leaves the vocabulary, in memory and in storage, as it was.
C7_RemoveKeepsVocabulary ==
    [][\A id \in Ids :
         RemoveTodoWith(id) =>
            /\ availableTags' = availableTags
            /\ ("availableTags" \in DOMAIN localStorage')
                   = ("availableTags" \in DOMAIN localStorage)
            /\ getItemOrEmpty(localStorage', "availableTags")
                   = getItemOrEmpty(localStorage, "availableTags")]_vars

\* one task was created with tags <<work, urgent>> and removed again
C7_Witness ==
    /\ nanoidCount = 1
    /\ removedIds = {nanoid(1)}
    /\ todos = <<>>
    /\ availableTags = <<"work", "urgent">>
    /\ getItemOrEmpty(localStorage, "availableTags") = <<"work", "urgent">>

\* C8: the vocabulary never holds the same tag twice.
C8_VocabularyDistinct ==
    \A i, j \in DOMAIN availableTags : availableTags[i] = availableTags[j] => i = j

\* C9: the stored entries decode to the in-memory collection and vocabulary
\* (an absent entry decodes to the empty array), so that restoring the state
\* from storage yields the state in memory.
C9_StorageMirrorsMemory ==
    /\ SameTodos(initialState(localStorage).todos, todos)
    /\ initialState(localStorage).availableTags = availableTags

\* both entries are stored; a completed task and a non-empty vocabulary
C9_Witness ==
    /\ DOMAIN localStorage = {"todos", "availableTags"}
    /\ \E i \in DOMAIN todos : todos[i].isCompleted
    /\ availableTags # <<>>
    /\ removedIds # {}

(***************************************************************************)
(* Properties of the projection                                            *)
(***************************************************************************)
\* position of the task with this id in the collection
PositionOf(ts, id) == CHOOSE i \in DOMAIN ts : Get(ts[i], "id") = id

\* C10: the displayed list is sorted by priority rank (high 0, medium 1,
\* low 2, null / absent 3) and tasks of equal rank are in their order of the
\* collection; A(high), B(low), C(no priority), D(high) displays as A, D, B, C.
C10_SortedStable ==
    /\ \A i, j \in DOMAIN filteredTodos :
         i < j =>
            LET a == filteredTodos[i]
                b == filteredTodos[j]
            IN /\ priorityOrder(Get(a, "priority")) <= priorityOrder(Get(b, "priority"))
               /\ priorityOrder(Get(a, "priority")) = priorityOrder(Get(b, "priority"))
                    => PositionOf(todos, a.id) < PositionOf(todos, b.id)
    /\ (/\ filter = "all"
        /\ Len(todos) = 4
        /\ todos[1].priority = "high"
        /\ todos[2].priority = "low"
        /\ todos[3].priority = Null
        /\ todos[4].priority = "high")
       => filteredTodos = <<todos[1], todos[4], todos[2], todos[3]>>

\* A(high), B(low), C(no priority), D(high) are displayed under 'all'
C10_Witness ==
    /\ filter = "all"
    /\ Len(todos) = 4
    /\ todos[1].priority = "high"
    /\ todos[2].priority = "low"
    /\ todos[3].priority = Null
    /\ todos[4].priority = "high"
    /\ Len(filteredTodos) = 4

(***************************************************************************)
(* Properties of the Todo row                                              *)
(***************************************************************************)
\* C3: after Save on a row in edit mode with a non-empty title, the stored
\* task with the row's id carries the row's title, description, target date,
\* priority and tags, and the row's tags are in the vocabulary.
C3_SaveStoresRowFields ==
    [][\A id \in Ids :
         (ClickSaveWith(id) /\ Truthy(rows[id].todoTitle)) =>
            /\ \E i \in DOMAIN todos' :
                 /\ Get(todos'[i], "id") = id
                 /\ Get(todos'[i], "title") = rows[id].todoTitle
                 /\ Get(todos'[i], "description") = rows[id].todoDescription
                 /\ Get(todos'[i], "targetDate") =
                        (IF Truthy(rows[id].todoTargetDate)
                         THEN toISOString(rows[id].todoTargetDate) ELSE Null)
                 /\ Get(todos'[i], "priority") = rows[id].todoPriority
                 /\ todos'[i].tags = rows[id].todoTags
            /\ Range(rows[id].todoTags) \subseteq Range(availableTags')]_vars

C12_FiltersPartition ==
    LET completed == project(todos, "completed")
        pending   == project(todos, "pending")
        all       == project(todos, "all")
    IN /\ Range(completed) \cap Range(pending) = {}
       /\ Range(completed) \cup Range(pending) = Range(all)
       /\ Range(all) = Range(todos)
       /\ Len(all) = Len(todos)
       /\ Len(completed) + Len(pending) = Len(all)
       /\ filteredTodos = project(todos, filter)

\* a collection with completed and pending tasks, displayed under 'completed'
C12_Witness ==
    /\ filter = "completed"
    /\ \E i, j \in DOMAIN todos : todos[i].isCompleted /\ ~todos[j].isCompleted
    /\ Len(filteredTodos) >= 1
    /\ Len(filteredTodos) < Len(todos)

\* C13: toggleComplete on an id of the collection changes only the isCompleted
\* of the task with that id, and a second toggleComplete on the same id gives
\* back the collection as it was before the first.
C13_ToggleTwiceRestores ==
    [][\A id \in Ids :
         (ToggleCompleteWith(id) /\ Present(id)) =>
            /\ Len(todos') = Len(todos)
            /\ \A i \in DOMAIN todos :
                 IF Get(todos[i], "id") = id
                 THEN /\ todos'[i].isCompleted = ~todos[i].isCompleted
                      /\ [todos'[i] EXCEPT !.isCompleted = todos[i].isCompleted] = todos[i]
                 ELSE todos'[i] = todos[i]
            /\ toggleComplete([todos |-> todos', availableTags |-> availableTags'],
                              localStorage', id).todos = todos]_vars

\* the only task ever created is completed
C13_Witness ==
    /\ nanoidCount = 1
    /\ Len(todos) = 1
    /\ todos[1].isCompleted
    /\ localStorage.todos[1].isCompleted

\* C14: after removeTodo(id) the collection holds no task with that id and
\* the other tasks as they were, in their previous order; a second
\* removeTodo(id) leaves the collection unchanged.
C14_RemoveIdempotent ==
    [][\A id \in Ids :
         RemoveTodoWith(id) =>
            /\ IdsOf(todos') = IdsOf(todos) \ {id}
            /\ \A i \in DOMAIN todos' :
                 todos'[i] = TodoById(todos, Get(todos'[i], "id"))
            /\ \A i, j \in DOMAIN todos' :
                 i < j => PositionOf(todos, Get(todos'[i], "id"))
                            < PositionOf(todos, Get(todos'[j], "id"))
            /\ removeTodo([todos |-> todos', availableTags |-> availableTags'],
                          localStorage', id).todos = todos']_vars

\* the first of two tasks was removed, the second is left
C14_Witness ==
    /\ nanoidCount = 2
    /\ removedIds = {nanoid(1)}
    /\ Len(todos) = 1
    /\ Get(todos[1], "id") = nanoid(2)

\* C15: addTodo appends one task at the end of the collection, with an id no
\* task has or had, isCompleted false, the given title, description and
\* targetDate, the given priority or null when it is absent, the given tags or
\* the empty sequence when they are absent; the tasks before it are unchanged.
C15_CreateAppends ==
    [][\A payload \in Payloads :
         AddTodoWith(payload) =>
            /\ Len(todos') = Len(todos) + 1
            /\ SubSeq(todos', 1, Len(todos)) = todos
            /\ LET todo == todos'[Len(todos')]
               IN /\ Get(todo, "id") \notin IdsOf(todos) \cup removedIds
                  /\ todo.isCompleted = FALSE
                  /\ Get(todo, "title") = Get(payload, "title")
                  /\ Get(todo, "description") = Get(payload, "description")
                  /\ Get(todo, "targetDate") = Get(payload, "targetDate")
                  /\ Get(todo, "priority") =
                        (IF "priority" \in DOMAIN payload THEN payload.priority ELSE Null)
                  /\ todo.tags = (IF HasTags(payload) THEN payload.tags ELSE <<>>)]_vars

\* two tasks were created, the second from the payload without priority
C15_Witness ==
    /\ nanoidCount = 2
    /\ Len(todos) = 2
    /\ Get(todos[1], "id") = nanoid(1)
    /\ Get(todos[2], "id") = nanoid(2)
    /\ Get(todos[2], "title") = "t3"
    /\ Get(todos[2], "priority") = Null

\* the tags of the payload that are not in the vocabulary, in payload order
NewTagsOf(payload) ==
    IF HasTags(payload)
    THEN SelectSeq(payload.tags, LAMBDA tag : tag \notin Range(availableTags))
    ELSE <<>>

C17_OnlyToggleFlips ==
    [][\A i \in DOMAIN todos' :
         LET id == Get(todos'[i], "id")
         IN IF id \in IdsOf(todos)
            THEN todos'[i].isCompleted # TodoById(todos, id).isCompleted
                    => ToggleCompleteWith(id)
            ELSE todos'[i].isCompleted = FALSE]_vars

\* of two tasks the first is completed, the second is not
C17_Witness ==
    /\ Len(todos) = 2
    /\ todos[1].isCompleted
    /\ ~todos[2].isCompleted
    /\ removedIds = {}

\* C18: total is the number of tasks of the collection, completed the number
\* with isCompleted true, pending the number with isCompleted false, whatever
\* the filter; total = completed + pending, and the lists displayed under
\* 'completed' and 'pending' have these lengths.
C18_Statistics ==
    LET stats == taskStats(todos)
    IN /\ stats.total = Cardinality(DOMAIN todos)
       /\ stats.completed = Cardinality({i \in DOMAIN todos : todos[i].isCompleted})
       /\ stats.pending = Cardinality({i \in DOMAIN todos : ~todos[i].isCompleted})
       /\ stats.total = stats.completed + stats.pending
       /\ Len(project(todos, "completed")) = stats.completed
       /\ Len(project(todos, "pending")) = stats.pending

\* completed and pending tasks, displayed under 'pending': fewer than total
C18_Witness ==
    /\ filter = "pending"
    /\ Len(todos) = 3
    /\ Len(filteredTodos) = 1
    /\ taskStats(todos).completed = 2

\* C19: every task created through the form and edited through its row has
\* a non-empty title.
C19_TitlesNonEmpty ==
    \A i \in DOMAIN todos : Truthy(Get(todos[i], "title"))

\* a row is in edit mode with its title emptied, and its task is stored
C19_Witness ==
    \E id \in DOMAIN rows :
        /\ rows[id].isTodoEditable
        /\ rows[id].todoTitle = ""
        /\ Present(id)

(***************************************************************************)
(* Properties of the login session                                         *)
(***************************************************************************)
\* C20: after loginSuccess(user) the auth state initialised from storage has
\* isAuthenticated true and that user, and after logout it has
\* isAuthenticated false and user null.
C20_SessionPersists ==
    [][/\ \A user \in Users :
            LoginSuccessWith(user) =>
               /\ authInitialState(localStorage').isAuthenticated = TRUE
               /\ authInitialState(localStorage').user = user
               /\ auth'.user = user
               /\ auth'.isAuthenticated = TRUE
       /\ Logout =>
               /\ authInitialState(localStorage').isAuthenticated = FALSE
               /\ authInitialState(localStorage').user = NullUser
               /\ auth'.user = NullUser
               /\ auth'.isAuthenticated = FALSE]_vars

\* a user is logged in and stored, no callback is pending
C20_Witness ==
    /\ auth.isAuthenticated
    /\ auth.user = loginUser([local |-> "ann", rest |-> "x.org"])
    /\ "user" \in DOMAIN localStorage
    /\ getUserFromStorage(localStorage) = auth.user
    /\ timers = <<>>

(***************************************************************************)
(* Properties of the third sitting                                         *)
(***************************************************************************)
\* C21: computing the displayed list for a filter leaves the collection of
\* the store as it was, same tasks in the same order, also when the displayed
\* order differs from it.
C21_ProjectKeepsCollection ==
    [][SetFilter =>
          /\ todos' = todos
          /\ filteredTodos' = project(todos, filter')]_vars

\* displayed under 'pending' in an order that is not the collection's order
C21_Witness ==
    /\ filter = "pending"
    /\ \E i, j \in DOMAIN filteredTodos :
          /\ i < j
          /\ PositionOf(todos, Get(filteredTodos[i], "id"))
                > PositionOf(todos, Get(filteredTodos[j], "id"))

\* the entry `todos` holds the collection in full
TodosStored ==
    /\ "todos" \in DOMAIN localStorage'
    /\ localStorage'["todos"] = stringifyTodos(todos')

\* the entry `availableTags` holds the vocabulary in full
VocabularyStored ==
    /\ "availableTags" \in DOMAIN localStorage'
    /\ localStorage'["availableTags"] = stringifyTags(availableTags')

\* the entry `availableTags` and the vocabulary are what they were
VocabularyUntouched ==
    /\ ("availableTags" \in DOMAIN localStorage') = ("availableTags" \in DOMAIN localStorage)
    /\ getItemOrEmpty(localStorage', "availableTags")
          = getItemOrEmpty(localStorage, "availableTags")
    /\ availableTags' = availableTags

\* C22 as stated: after each of addTodo, updateTodo, removeTodo and
\* toggleComplete both entries, `todos` and `availableTags`, are stored in
\* full, whether or not the operation carried tags.
C22_BothEntriesWritten ==
    [][(\/ \E payload \in Payloads : AddTodoWith(payload)
        \/ \E id \in Ids, payload \in Payloads : UpdateTodoWith(id, payload)
        \/ \E id \in Ids : RemoveTodoWith(id)
        \/ \E id \in Ids : ToggleCompleteWith(id))
          => TodosStored /\ VocabularyStored]_vars

\* C22 amended: each of the four operations stores `todos` in full;
\* `availableTags` is stored in full by addTodo and updateTodo when the
\* payload carries at least one tag, and is otherwise left as it was, absent
\* if it was never written.
C22_TodosAlwaysVocabularyWithTags ==
    [][/\ \A payload \in Payloads :
            AddTodoWith(payload) =>
               /\ TodosStored
               /\ IF CarriesTags(payload) THEN VocabularyStored ELSE VocabularyUntouched
       /\ \A id \in Ids, payload \in Payloads :
            UpdateTodoWith(id, payload) =>
               /\ TodosStored
               /\ IF CarriesTags(payload) THEN VocabularyStored ELSE VocabularyUntouched
       /\ \A id \in Ids :
            (RemoveTodoWith(id) \/ ToggleCompleteWith(id)) =>
               TodosStored /\ VocabularyUntouched]_vars

\* a task was created without tags: only the entry `todos` exists
C22_Witness ==
    /\ DOMAIN localStorage = {"todos"}
    /\ Len(todos) = 1
    /\ nanoidCount = 1
    /\ todos[1].tags = <<>>

\* C23: also when a setItem throws, the stored entries decode to the
\* collection and the vocabulary in memory: an operation is reflected in
\* memory and in both entries, or in none of them.
C23_AllOrNothing ==
    /\ SameTodos(JSONparse(getItemOrEmpty(localStorage, "todos")), todos)
    /\ JSONparse(getItemOrEmpty(localStorage, "availableTags")) = availableTags

\* C24: a login submission sets loading = true and error = null first.
\* With email and password non-empty it leaves that state and sets the
\* timer, and the timer leads to loginSuccess: isAuthenticated true, loading
\* false and the user whose name is the part of the email before '@'.  With
\* either empty it goes on at once to loginFailure: isAuthenticated false,
\* user null, loading false and an error that is not null.
C24_SubmitThenSuccessOrFailure ==
    /\ [][\A formData \in LoginForms :
            HandleLoginSubmitWith(formData) =>
               LET started == loginStart(auth, localStorage).auth
               IN /\ started.loading = TRUE
                  /\ started.error = Null
                  /\ IF emailText(formData.email) # "" /\ formData.password # ""
                     THEN /\ auth' = started
                          /\ timers'[Len(timers')].email = emailText(formData.email)
                          /\ timers'[Len(timers')].name = formData.email.local
                     ELSE /\ auth'.isAuthenticated = FALSE
                          /\ auth'.user = NullUser
                          /\ auth'.loading = FALSE
                          /\ auth'.error # Null
                          /\ timers' = timers]_vars
    /\ [][\A user \in Users :
            LoginSuccessWith(user) =>
               /\ auth'.isAuthenticated = TRUE
               /\ auth'.loading = FALSE
               /\ auth'.user = user
               /\ auth'.error = Null]_vars
    /\ \A user \in Users :
          (timers # <<>> /\ Head(timers) = user)
             ~> (auth.isAuthenticated /\ ~auth.loading /\ auth.user = user)

\* logged in from an address without '@' while a later submission waits
C24_Witness ==
    /\ auth.isAuthenticated
    /\ ~auth.loading
    /\ auth.user.email = "bob"
    /\ auth.user.name = "bob"
    /\ Len(timers) = 1

\* C25: under every sequence of TagInput events the tag list has no tag
\* that is empty or blank, no tag twice, and the suggestions hold no tag of
\* the list.
C25_TagListStaysClean ==
    /\ \A i \in DOMAIN tagInput.tags : trim(tagInput.tags[i]) # <<>>
    /\ \A i, j \in DOMAIN tagInput.tags :
          tagInput.tags[i] = tagInput.tags[j] => i = j
    /\ Range(filteredSuggestions(tagInput)) \cap Range(tagInput.tags) = {}

\* a typed tag and a suggested tag are in the list, the typed text names a
\* tag of the list, and a suggestion is still offered
C25_Witness ==
    /\ Includes(tagInput.tags, <<"a">>)
    /\ Includes(tagInput.tags, <<"A">>)
    /\ tagInput.inputValue = <<"a">>
    /\ tagInput.showSuggestions
    /\ filteredSuggestions(tagInput) # <<>>

\* C26: every tag of every task of the collection is in the vocabulary.
C26_TaskTagsInVocabulary ==
    \A i \in DOMAIN todos :
        \A k \in DOMAIN todos[i].tags : Includes(availableTags, todos[i].tags[k])

\* a task carries tags, and the vocabulary also holds a tag no task carries
C26_Witness ==
    /\ \E i \in DOMAIN todos : todos[i].tags # <<>>
    /\ \E k \in DOMAIN availableTags :
          \A i \in DOMAIN todos : ~Includes(todos[i].tags, availableTags[k])
    /\ nanoidCount = MaxIds

\* C27: isAuthenticated is true in memory exactly when storage holds a
\* `user` entry, so that a reload keeps it; a loginFailure after a
\* loginSuccess leaves no stored user behind.
C27_AuthenticatedIffStored ==
    /\ auth.isAuthenticated <=> "user" \in DOMAIN localStorage
    /\ authInitialState(localStorage).isAuthenticated = auth.isAuthenticated

\* C28: a row that is not in edit mode displays the title, description,
\* target date, priority and tags of the stored task with its id.
C28_RowShowsStoredTask ==
    \A id \in DOMAIN rows :
        ~rows[id].isTodoEditable =>
            \E i \in DOMAIN todos :
                /\ Get(todos[i], "id") = id
                /\ rows[id].todoTitle = Get(todos[i], "title")
                /\ rows[id].todoDescription = Get(todos[i], "description")
                /\ rows[id].todoTargetDate =
                      (IF Truthy(Get(todos[i], "targetDate"))
                       THEN newDate(todos[i].targetDate) ELSE Null)
                /\ rows[id].todoPriority =
                      (IF Truthy(Get(todos[i], "priority")) THEN todos[i].priority ELSE Null)
                /\ rows[id].todoTags = todos[i].tags

\* C29: the row of a completed task is not in edit mode, and Save, the only
\* dispatch of updateTodo, happens for no task that is completed.
C29_CompletedNotEditable ==
    /\ [](\A id \in DOMAIN rows :
             TodoById(todos, id).isCompleted => ~rows[id].isTodoEditable)
    /\ [][\A id \in Ids :
             ClickSaveWith(id) =>
                /\ ~TodoById(todos, id).isCompleted
                /\ rows[id].isTodoEditable]_vars

\* a task was completed while its row was being edited: the row has left
\* edit mode with the typed title
C29_Witness ==
    \E id \in DOMAIN rows :
        /\ TodoById(todos, id).isCompleted
        /\ ~rows[id].isTodoEditable
        /\ rows[id].todoTitle = "t3"
        /\ Get(TodoById(todos, id), "title") # "t3"

\* C30 as stated: toggleDarkMode negates darkMode and stores it, so that the
\* state initialised from storage is the state in memory; a second toggle
\* gives back the value in memory and the stored value; without an entry the
\* initial value is false.
C30_DarkModeRoundTrip ==
    /\ []("mode" \notin DOMAIN localStorage =>
             /\ darkModeInitialState(localStorage).darkMode = FALSE
             /\ darkMode = FALSE)
    /\ [][ToggleDarkMode =>
             LET again == toggleDarkMode([darkMode |-> darkMode'], localStorage')
             IN /\ darkMode' = ~darkMode
                /\ localStorage'["mode"] = String(darkMode')
                /\ darkModeInitialState(localStorage').darkMode = darkMode'
                /\ again.darkMode = darkMode
                /\ again.localStorage = localStorage]_vars

\* C30 amended: as above, but the second toggle gives back the stored entry
\* only where there was one; from a storage without entry the two toggles
\* leave the entry "false", which initialises to the same value as no entry.
C30_DarkModeRoundTripDecoded ==
    /\ []("mode" \notin DOMAIN localStorage =>
             /\ darkModeInitialState(localStorage).darkMode = FALSE
             /\ darkMode = FALSE)
    /\ [][ToggleDarkMode =>
             LET again == toggleDarkMode([darkMode |-> darkMode'], localStorage')
             IN /\ darkMode' = ~darkMode
                /\ localStorage'["mode"] = String(darkMode')
                /\ darkModeInitialState(localStorage').darkMode = darkMode'
                /\ again.darkMode = darkMode
                /\ again.localStorage["mode"] = String(darkMode)
                /\ "mode" \in DOMAIN localStorage => again.localStorage = localStorage
                /\ darkModeInitialState(again.localStorage).darkMode
                      = darkModeInitialState(localStorage).darkMode]_vars

\* dark mode is on and stored while a user is logged in
C30_Witness ==
    /\ darkMode = TRUE
    /\ "mode" \in DOMAIN localStorage
    /\ localStorage["mode"] = "true"
    /\ auth.isAuthenticated

====
